---- MODULE Spec2Model ----
(***************************************************************************)
(* Model of Schedule_bot_unlim.py: the JSON schedule store                 *)
(* (load_all / save_all / get_user_schedule / set_user_schedule /          *)
(* set_user_day_slot, _normalize_schedule) and the conversation state      *)
(* machine registered in main().                                           *)
(*                                                                         *)
(* JSON values are modelled by tagged records so that every value of one   *)
(* kind has one shape:                                                     *)
(*   slot element : [kind: "str" | "null", s: sequence of characters]      *)
(*   day value    : [kind: "list" | "other" | "missing", items: Seq(elem)] *)
(*   user entry   : [kind: "dict" | "other" | "missing", days: key -> day] *)
(*   file         : [kind: "dict" | "garbage" | "nonobject" | "unreadable" *)
(*                   | "inaccessible" | "absent", users: key -> entry]     *)
(* "other" is a JSON value of the wrong type (a string, a number, null),   *)
(* "missing" a key that the enclosing object does not have.  A text is a   *)
(* sequence of one-character strings, so that str.strip() can be computed. *)
(***************************************************************************)
EXTENDS Integers, Sequences, FiniteSets, TLC

VARIABLES
    file,      \* content of DATA_FILE (schedules.json)
    before,    \* content of DATA_FILE before the last operation / event
    calls,     \* store API calls made so far, oldest first
    ret,       \* what the last store API call returned (or that it raised)
    sess,      \* per user: conversation state and context.user_data
    ev,        \* the last inbound update and how it was dispatched
    nev,       \* number of inbound updates so far
    flow,      \* per user: how far the user's latest updates follow the build flow
    pc,        \* per concurrent set_user_day_slot call: its position
    loc,       \* per concurrent set_user_day_slot call: its local variables
    raw,       \* input of _normalize_schedule
    out1,      \* _normalize_schedule(raw)
    out2       \* _normalize_schedule(_normalize_schedule(raw))

vars == <<file, before, calls, ret, sess, ev, nev, flow, pc, loc, raw, out1, out2>>

storeVars == <<calls, ret>>
botVars == <<sess, ev, nev, flow>>
concVars == <<pc, loc>>
normVars == <<raw, out1, out2>>

(***************************************************************************)
(* Program constants                                                       *)
(***************************************************************************)
WEEKDAYS == <<"monday", "tuesday", "wednesday", "thursday", "friday">>

PAIR_COUNT == 4

WeekdaySet == {WEEKDAYS[i] : i \in 1..Len(WEEKDAYS)}

\* range(PAIR_COUNT)
SlotRange == 0..(PAIR_COUNT - 1)

\* The empty-marker, the string "—" (written "-" here).
EMPTY_MARK == <<"-">>

STATE_MENU == 0
STATE_VIEW_DAY == 1
STATE_BUILD_DAY == 2
STATE_BUILD_SLOT == 3
STATE_BUILD_TEXT == 4
STATE_EDIT_DAY == 5
STATE_EDIT_SLOT == 6
STATE_EDIT_TEXT == 7

ConvStates == STATE_MENU..STATE_EDIT_TEXT

(***************************************************************************)
(* Bounds and input sets                                                   *)
(***************************************************************************)
\* store API calls in one behaviour of SpecStore
MaxCalls == 2

\* inbound updates in one behaviour of Spec
MaxEvents == 6

\* longest day list enumerated as an input of _normalize_schedule
MaxListLen == 5

\* Telegram user ids
Users == {1, 2}

\* (day, slot_index) arguments of set_user_day_slot: the first slot of the
\* first weekday, the last slot of the last weekday, the first index past the
\* end of a day list (PAIR_COUNT), and a day that is not in WEEKDAYS.
SlotArgs == {<<"monday", 0>>, <<"friday", 3>>, <<"monday", 4>>, <<"sunday", 0>>}

\* value arguments of set_user_day_slot: empty, whitespace only, and a text
\* with leading and trailing whitespace.
StoreValues == {<<>>, <<" ">>, <<" ", "a", " ">>}

\* Day keys that occur in inputs: the weekdays and one key that is no weekday.
DayKeys == WeekdaySet \cup {"sunday"}

\* Day names carried by calls and callback data: the first and the last
\* weekday, and a name that is not in WEEKDAYS.
ArgDays == {"monday", "friday", "sunday"}

\* Whitespace characters removed by str.strip()
Whitespace == {" "}

\* Message texts / slot values given as arguments.
Texts == {<<>>, <<" ">>, <<"a">>, <<" ", "a", " ">>}

(***************************************************************************)
(* JSON values                                                             *)
(***************************************************************************)
Str(s) == [kind |-> "str", s |-> s]
Null == [kind |-> "null", s |-> <<>>]

MarkElem == Str(EMPTY_MARK)

List(items) == [kind |-> "list", items |-> items]
OtherDay == [kind |-> "other", items |-> <<>>]
MissingDay == [kind |-> "missing", items |-> <<>>]

NoDays == [d \in DayKeys |-> MissingDay]

Dict(days) == [kind |-> "dict", days |-> days]
OtherEntry == [kind |-> "other", days |-> NoDays]
MissingEntry == [kind |-> "missing", days |-> NoDays]

\* ["—"] * n
Marks(n) == [i \in 1..n |-> MarkElem]

\* seq[:n]
Take(seq, n) == SubSeq(seq, 1, IF Len(seq) < n THEN Len(seq) ELSE n)

(***************************************************************************)
(* Storage                                                                 *)
(***************************************************************************)
default_schedule ==
    Dict([d \in DayKeys |-> IF d \in WeekdaySet THEN List(Marks(PAIR_COUNT))
                                                ELSE MissingDay])

\* Mutant: pads short day lists but does not cut long ones.
normalize_schedule_untruncated(r) ==
    LET src == IF r.kind = "dict" THEN r.days ELSE NoDays
        day_list(d) == IF src[d].kind = "list" THEN src[d].items
                                                ELSE Marks(PAIR_COUNT)
    IN  Dict([d \in DayKeys |->
                IF d \in WeekdaySet
                THEN List(IF Len(day_list(d)) >= PAIR_COUNT THEN day_list(d)
                          ELSE Take(day_list(d) \o Marks(PAIR_COUNT), PAIR_COUNT))
                ELSE MissingDay])

normalize_schedule(r) ==
    LET src == IF r.kind = "dict" THEN r.days ELSE NoDays
        day_list(d) == IF src[d].kind = "list" THEN src[d].items
                                                ELSE Marks(PAIR_COUNT)
    IN  Dict([d \in DayKeys |->
                IF d \in WeekdaySet
                THEN List(Take(day_list(d) \o Marks(PAIR_COUNT), PAIR_COUNT))
                ELSE MissingDay])

\* A schedule with exactly the five weekdays, each a list of exactly four
\* slots.
WellFormed(s) ==
    /\ s.kind = "dict"
    /\ \A d \in DayKeys :
          IF d \in WeekdaySet
          THEN s.days[d].kind = "list" /\ Len(s.days[d].items) = PAIR_COUNT
          ELSE s.days[d].kind = "missing"

(***************************************************************************)
(* Inputs of _normalize_schedule                                           *)
(***************************************************************************)
RECURSIVE Rep(_, _)
Rep(x, n) == IF n = 0 THEN <<>> ELSE <<x>> \o Rep(x, n - 1)

\* Day values: absent, of the wrong type, and lists of every length up to
\* MaxListLen whose elements are a text, or a text followed by nulls.
DayInputs ==
    {MissingDay, OtherDay}
      \cup {List(Rep(Str(<<"a">>), n)) : n \in 0..MaxListLen}
      \cup {List(<<Str(<<"a">>)>> \o Rep(Null, n)) : n \in 1..(MaxListLen - 1)}

\* Entries: a non-object, and objects whose monday, friday and sunday values
\* vary over DayInputs while the other days are all absent or all full.
RawInputs ==
    {OtherEntry}
      \cup {Dict([d \in DayKeys |->
                    CASE d = "monday" -> x
                      [] d = "friday" -> y
                      [] d = "sunday" -> z
                      [] OTHER -> rest]) :
              x \in DayInputs, y \in {MissingDay, List(Rep(Str(<<" ">>), 4)),
                                      List(Rep(Str(<<"a">>), 5))},
              z \in {MissingDay, List(Rep(Str(<<"a">>), 4))},
              rest \in {MissingDay, List(Rep(Str(<<"a">>), 4))}}

IdleEntry == MissingEntry

(***************************************************************************)
(* The file                                                                *)
(***************************************************************************)
\* str(user_id)
Key(u) == ToString(u)

\* Keys of the stored object: the users' keys and a key that is the decimal
\* form of no user id.
Keys == {Key(u) : u \in Users} \cup {"01"}

NoUsers == [k \in Keys |-> MissingEntry]

\* A file whose content is not valid JSON.
GarbageFile == [kind |-> "garbage", users |-> NoUsers]

\* A file holding valid JSON whose top level is not an object.
NonObjectFile == [kind |-> "nonobject", users |-> NoUsers]

\* A file the process may stat but not open for reading.
UnreadableFile == [kind |-> "unreadable", users |-> NoUsers]

\* A file in a directory the process may not search: stat() fails with
\* EACCES.
InaccessibleFile == [kind |-> "inaccessible", users |-> NoUsers]

\* Mutant: the try block has no except clause.
LoadOutcome_uncaught(f, reraise) ==
    IF f.kind = "inaccessible"
    THEN [raised |-> reraise, table |-> NoUsers]
    ELSE IF f.kind = "absent" THEN [raised |-> FALSE, table |-> NoUsers]
    ELSE IF f.kind \in {"unreadable", "garbage"}
    THEN [raised |-> TRUE, table |-> NoUsers]
    ELSE IF f.kind = "dict" THEN [raised |-> FALSE, table |-> f.users]
    ELSE [raised |-> FALSE, table |-> NoUsers]

\* load_all(): whether it raised, and the table it returned.
\* DATA_FILE.exists() is called outside the try block; Path.exists()
\* returns False for ENOENT, ENOTDIR, EBADF and ELOOP and, up to Python 3.13,
\* re-raises every other OSError (reraise); later versions return False.
LoadOutcome(f, reraise) ==
    IF f.kind = "inaccessible"                                 \* exists()
    THEN [raised |-> reraise, table |-> NoUsers]
    ELSE IF f.kind = "absent" THEN [raised |-> FALSE, table |-> NoUsers]
    ELSE IF f.kind \in {"unreadable", "garbage"}               \* open(), json.load()
    THEN [raised |-> FALSE, table |-> NoUsers]                 \* except Exception
    ELSE IF f.kind = "dict" THEN [raised |-> FALSE, table |-> f.users]
    ELSE [raised |-> FALSE, table |-> NoUsers]                 \* not a dict

\* The table load_all() returns
load_all(f) == LoadOutcome(f, TRUE).table

save_all(data) == [kind |-> "dict", users |-> data]

\* What get_user_schedule makes of a stored entry: the default schedule for
\* a key that is not there, the normalized entry otherwise.
Normalized(e) == IF e.kind = "missing" THEN default_schedule
                                       ELSE normalize_schedule(e)

\* Mutant: an entry that exists is returned as stored, not normalized.
get_user_schedule_stale(f, user_id) ==
    LET all_data == load_all(f)
        key == Key(user_id)
    IN  IF all_data[key].kind = "missing"
        THEN [file |-> save_all([all_data EXCEPT ![key] = default_schedule]),
              ret |-> default_schedule]
        ELSE [file |-> save_all(all_data), ret |-> all_data[key]]

\* Mutant: the default made for an unseen user is returned but not saved.
get_user_schedule_unsaved(f, user_id) ==
    LET all_data == load_all(f)
        key == Key(user_id)
    IN  IF all_data[key].kind = "missing"
        THEN [file |-> f, ret |-> default_schedule]
        ELSE [file |-> save_all([all_data EXCEPT
                                   ![key] = normalize_schedule(all_data[key])]),
              ret |-> normalize_schedule(all_data[key])]

get_user_schedule(f, user_id) ==
    LET all_data == load_all(f)
        key == Key(user_id)
    IN  IF all_data[key].kind = "missing"
        THEN [file |-> save_all([all_data EXCEPT ![key] = default_schedule]),
              ret |-> default_schedule]
        ELSE [file |-> save_all([all_data EXCEPT
                                   ![key] = normalize_schedule(all_data[key])]),
              ret |-> normalize_schedule(all_data[key])]

\* Mutant: the table written holds this user's entry only.
set_user_schedule_alone(f, user_id, schedule) ==
    save_all([NoUsers EXCEPT ![Key(user_id)] = normalize_schedule(schedule)])

\* Mutant: the entry is replaced in memory and never written.
set_user_schedule_unsaved(f, user_id, schedule) == f

set_user_schedule(f, user_id, schedule) ==
    LET all_data == load_all(f)
        key == Key(user_id)
    IN  save_all([all_data EXCEPT ![key] = normalize_schedule(schedule)])

\* value if value else "—"
OrMark(value) == IF value # <<>> THEN value ELSE EMPTY_MARK

\* Python's lst[i] = v for -len(lst) <= i < len(lst)
SetItem(lst, i, v) ==
    [lst EXCEPT ![IF i < 0 THEN i + Len(lst) + 1 ELSE i + 1] = v]

\* Whether lst[i] raises IndexError
IndexError(lst, i) == i < -Len(lst) \/ i >= Len(lst)

\* schedule[day][slot_index] = value if value else "—"
AssignSlot(schedule, day, slot_index, value) ==
    Dict([schedule.days EXCEPT
            ![day] = List(SetItem(@.items, slot_index, Str(OrMark(value))))])

\* [file: the file afterwards, ok: FALSE when the call raised, ret: the
\* schedule returned]
set_user_day_slot(f, user_id, day, slot_index, value) ==
    LET got == get_user_schedule(f, user_id)
        schedule == got.ret
    IN  IF day \notin WeekdaySet
        THEN [file |-> got.file, ok |-> FALSE, ret |-> IdleEntry]   \* KeyError
        ELSE IF IndexError(schedule.days[day].items, slot_index)
        THEN [file |-> got.file, ok |-> FALSE, ret |-> IdleEntry]
        ELSE LET changed == AssignSlot(schedule, day, slot_index, value)
             IN  [file |-> set_user_schedule(got.file, user_id, changed),
                  ok |-> TRUE, ret |-> changed]

(***************************************************************************)
(* Idle values of the variables a specification does not use               *)
(***************************************************************************)
AbsentFile == [kind |-> "absent", users |-> NoUsers]

StoreIdle == calls = <<>> /\ ret = [ok |-> TRUE, val |-> IdleEntry]
BotIdle == sess = <<>> /\ ev = <<>> /\ nev = 0 /\ flow = <<>>
ConcIdle == pc = <<>> /\ loc = <<>>
NormIdle == raw = IdleEntry /\ out1 = IdleEntry /\ out2 = IdleEntry
FileIdle == file = AbsentFile /\ before = AbsentFile

(***************************************************************************)
(* SpecNorm: _normalize_schedule applied once and twice                    *)
(***************************************************************************)
InitNorm ==
    /\ raw \in RawInputs
    /\ out1 = IdleEntry /\ out2 = IdleEntry
    /\ FileIdle /\ StoreIdle /\ BotIdle /\ ConcIdle

NormalizeOnce ==
    /\ out1 = IdleEntry
    /\ out1' = normalize_schedule(raw)
    /\ UNCHANGED <<raw, out2, file, before, storeVars, botVars, concVars>>

NormalizeTwice ==
    /\ out1 # IdleEntry /\ out2 = IdleEntry
    /\ out2' = normalize_schedule(out1)
    /\ UNCHANGED <<raw, out1, file, before, storeVars, botVars, concVars>>

NextNorm == NormalizeOnce \/ NormalizeTwice

SpecNorm == InitNorm /\ [][NextNorm]_vars

(***************************************************************************)
(* Text entry (on_build_text, on_edit_text)                                *)
(***************************************************************************)
RECURSIVE lstrip(_)
lstrip(t) == IF t # <<>> /\ Head(t) \in Whitespace THEN lstrip(Tail(t)) ELSE t

Reverse(t) == [i \in 1..Len(t) |-> t[Len(t) + 1 - i]]

\* Mutant: only leading whitespace is removed.
strip_leading(t) == lstrip(t)

\* str.strip()
strip(t) == Reverse(lstrip(Reverse(lstrip(t))))

\* Mutant: the guard only checks that a selection was recorded.
Desync_none_only(day, slot) == day = <<>> \/ slot = <<>>

\* context.user_data.get(k) is <<>> for None and <<v>> for a value v.
\* day not in WEEKDAYS or slot not in range(PAIR_COUNT)
Desync(day, slot) ==
    \/ day = <<>> \/ slot = <<>>
    \/ day[1] \notin WeekdaySet \/ slot[1] \notin SlotRange

\* The body of on_build_text / on_edit_text: [file, ok, ret] as for
\* set_user_day_slot, and desync: whether the guard returned early.
on_text(f, user_id, day, slot, message_text) ==
    LET text == strip(message_text)
    IN  IF Desync(day, slot)
        THEN [file |-> f, ok |-> TRUE, ret |-> IdleEntry, desync |-> TRUE]
        ELSE LET r == set_user_day_slot(f, user_id, day[1], slot[1], OrMark(text))
             IN  [file |-> r.file, ok |-> r.ok, ret |-> r.ret, desync |-> FALSE]

(***************************************************************************)
(* SpecStore: the store API called directly, from any stored content       *)
(***************************************************************************)
\* A well-formed schedule holding text x in every slot.
Full(x) ==
    Dict([d \in DayKeys |-> IF d \in WeekdaySet THEN List(Rep(Str(x), PAIR_COUNT))
                                                ELSE MissingDay])

\* An object with a short list, a long list holding a null, a value that is
\* no list, absent days and a key that is no weekday.
Malformed ==
    Dict([d \in DayKeys |->
            CASE d = "monday" -> List(<<Str(<<"a">>)>>)
              [] d = "tuesday" -> OtherDay
              [] d = "friday" -> List(<<Str(<<"a">>), Null>> \o Rep(Str(<<"a">>), 3))
              [] d = "sunday" -> List(Rep(Str(<<"a">>), PAIR_COUNT))
              [] OTHER -> MissingDay])

ScheduleArgs == {OtherEntry, Malformed, Full(<<" ">>)}

InitFiles ==
    {AbsentFile, GarbageFile}
      \cup {save_all([k \in Keys |->
                        CASE k = Key(1) -> e
                          [] k = Key(2) -> Full(<<"a">>)
                          [] OTHER -> Malformed]) :
              e \in {MissingEntry, OtherEntry, Malformed, Full(<<"a">>)}}

Call(op, u, day, slot, value, schedule) ==
    [op |-> op, u |-> u, day |-> day, slot |-> slot, value |-> value,
     schedule |-> schedule]

Returned(val) == [ok |-> TRUE, val |-> val]
Raised == [ok |-> FALSE, val |-> IdleEntry]

InitStore ==
    /\ file \in InitFiles
    /\ before = file
    /\ calls = <<>>
    /\ ret = Returned(IdleEntry)
    /\ BotIdle /\ ConcIdle /\ NormIdle

GetUserSchedule(u) ==
    /\ Len(calls) < MaxCalls
    /\ LET r == get_user_schedule(file, u)
       IN  /\ file' = r.file
           /\ ret' = Returned(r.ret)
    /\ before' = file
    /\ calls' = Append(calls, Call("get", u, "", 0, <<>>, IdleEntry))
    /\ UNCHANGED <<botVars, concVars, normVars>>

SetUserSchedule(u, schedule) ==
    /\ Len(calls) < MaxCalls
    /\ file' = set_user_schedule(file, u, schedule)
    /\ ret' = Returned(IdleEntry)
    /\ before' = file
    /\ calls' = Append(calls, Call("set", u, "", 0, <<>>, schedule))
    /\ UNCHANGED <<botVars, concVars, normVars>>

SetUserDaySlot(u, day, slot, value) ==
    /\ Len(calls) < MaxCalls
    /\ LET r == set_user_day_slot(file, u, day, slot, value)
       IN  /\ file' = r.file
           /\ ret' = IF r.ok THEN Returned(r.ret) ELSE Raised
    /\ before' = file
    /\ calls' = Append(calls, Call("setslot", u, day, slot, value, IdleEntry))
    /\ UNCHANGED <<botVars, concVars, normVars>>

\* on_build_text / on_edit_text with the pending selection (day, slot) and a
\* message text: the store sees the stripped text.
TextEntry(u, day, slot, text) ==
    /\ Len(calls) < MaxCalls
    /\ LET r == on_text(file, u, <<day>>, <<slot>>, text)
       IN  /\ file' = r.file
           /\ ret' = IF r.ok THEN Returned(r.ret) ELSE Raised
    /\ before' = file
    /\ calls' = Append(calls, Call("text", u, day, slot, text, IdleEntry))
    /\ UNCHANGED <<botVars, concVars, normVars>>

ValidArg(a) == a[1] \in WeekdaySet /\ a[2] \in SlotRange

NextStore ==
    \/ \E u \in Users : GetUserSchedule(u)
    \/ \E u \in Users, s \in ScheduleArgs : SetUserSchedule(u, s)
    \/ \E u \in Users, a \in SlotArgs :
          \E v \in IF ValidArg(a) THEN StoreValues ELSE {<<"a">>} :
             SetUserDaySlot(u, a[1], a[2], v)
    \/ \E u \in Users, a \in {<<"monday", 0>>, <<"monday", 4>>} :
          \E t \in IF ValidArg(a) THEN Texts ELSE {<<"a">>} :
             TextEntry(u, a[1], a[2], t)

SpecStore == InitStore /\ [][NextStore]_vars

\* The last call, and the one before it.
LastCall == calls[Len(calls)]
PrevCall == calls[Len(calls) - 1]

(***************************************************************************)
(* Updates                                                                 *)
(***************************************************************************)
\* query.data.split(":") of the callback data the keyboards carry
\* (kb_menu, kb_weekdays, kb_slots, kb_back_to_menu), of data naming a day
\* that is no weekday or a slot index outside range(PAIR_COUNT), and of data
\* whose slot index is no integer.
MenuData == {<<"menu", "back">>, <<"menu", "view">>, <<"menu", "build">>,
             <<"menu", "edit">>, <<"menu", "other">>}

DayData(prefix) == {<<prefix, d>> : d \in ArgDays}

SlotData(prefix) ==
    {<<prefix, "monday", "0">>, <<prefix, "friday", "3">>,
     <<prefix, "monday", "4">>, <<prefix, "monday", "-1">>,
     <<prefix, "sunday", "0">>, <<prefix, "monday", "x">>,
     <<prefix, "back", "monday">>}

CallbackData ==
    MenuData \cup DayData("viewday") \cup DayData("buildday")
      \cup DayData("editday") \cup SlotData("buildslot") \cup SlotData("editslot")

\* An update: the /start or /help command, a callback query, or a text
\* message that is no command.
Command(name) == [kind |-> name, data |-> <<>>, text |-> <<>>]
Callback(data) == [kind |-> "callback", data |-> data, text |-> <<>>]
TextMessage(text) == [kind |-> "text", data |-> <<>>, text |-> text]

\* Updates tried against every state to see that no handler takes them: a
\* text message and one callback query of each shape.
Samples ==
    {TextMessage(<<"a">>)}
      \cup {Callback(d) : d \in {<<"menu", "back">>, <<"menu", "view">>,
                                 <<"viewday", "monday">>, <<"buildday", "monday">>,
                                 <<"editday", "monday">>,
                                 <<"buildslot", "monday", "0">>,
                                 <<"editslot", "monday", "0">>}}

\* int(slot_index_str): <<n>>, or <<>> for ValueError
int(str) ==
    CASE str = "0" -> <<0>>
      [] str = "1" -> <<1>>
      [] str = "2" -> <<2>>
      [] str = "3" -> <<3>>
      [] str = "4" -> <<4>>
      [] str = "-1" -> <<-1>>
      [] OTHER -> <<>>

\* ":".join(parts)
RECURSIVE Join(_)
Join(parts) ==
    IF Len(parts) = 1 THEN parts[1] ELSE parts[1] \o ":" \o Join(Tail(parts))

\* _, day = query.data.split(":", 1)
DayOf(data) == Join(Tail(data))

(***************************************************************************)
(* Routing: ConversationHandler(entry_points, states, fallbacks,           *)
(* allow_reentry=True) followed by CommandHandler("help", cmd_help)        *)
(***************************************************************************)
\* CallbackQueryHandler(h, pattern=r"^<prefix>:")
Prefixed(h, prefix) == [handler |-> h, kind |-> "callback", pattern |-> <<prefix>>]
\* CallbackQueryHandler(on_menu_click, pattern=r"^menu:back$")
MenuBack == [handler |-> "on_menu_click", kind |-> "callback",
             pattern |-> <<"menu", "back">>]
\* CallbackQueryHandler(on_menu_click)
AnyCallback == [handler |-> "on_menu_click", kind |-> "callback", pattern |-> <<>>]
\* MessageHandler(filters.TEXT & ~filters.COMMAND, h)
AnyText(h) == [handler |-> h, kind |-> "text", pattern |-> <<>>]

\* Mutant: the text-entry states do not register the menu:back handler.
StateHandlers_text_only(state) ==
    CASE state = STATE_MENU -> <<AnyCallback>>
      [] state = STATE_VIEW_DAY -> <<Prefixed("on_view_day", "viewday"), MenuBack>>
      [] state = STATE_BUILD_DAY -> <<Prefixed("on_build_day", "buildday"), MenuBack>>
      [] state = STATE_BUILD_SLOT -> <<Prefixed("on_build_slot", "buildslot"), MenuBack>>
      [] state = STATE_BUILD_TEXT -> <<AnyText("on_build_text")>>
      [] state = STATE_EDIT_DAY -> <<Prefixed("on_edit_day", "editday"), MenuBack>>
      [] state = STATE_EDIT_SLOT -> <<Prefixed("on_edit_slot", "editslot"), MenuBack>>
      [] state = STATE_EDIT_TEXT -> <<AnyText("on_edit_text")>>

\* Mutant: the menu state takes text messages with the build text handler.
StateHandlers_menu_text(state) ==
    CASE state = STATE_MENU -> <<AnyCallback, AnyText("on_build_text")>>
      [] state = STATE_VIEW_DAY -> <<Prefixed("on_view_day", "viewday"), MenuBack>>
      [] state = STATE_BUILD_DAY -> <<Prefixed("on_build_day", "buildday"), MenuBack>>
      [] state = STATE_BUILD_SLOT -> <<Prefixed("on_build_slot", "buildslot"), MenuBack>>
      [] state = STATE_BUILD_TEXT -> <<AnyText("on_build_text"), MenuBack>>
      [] state = STATE_EDIT_DAY -> <<Prefixed("on_edit_day", "editday"), MenuBack>>
      [] state = STATE_EDIT_SLOT -> <<Prefixed("on_edit_slot", "editslot"), MenuBack>>
      [] state = STATE_EDIT_TEXT -> <<AnyText("on_edit_text"), MenuBack>>

\* states={...}
StateHandlers(state) ==
    CASE state = STATE_MENU -> <<AnyCallback>>
      [] state = STATE_VIEW_DAY -> <<Prefixed("on_view_day", "viewday"), MenuBack>>
      [] state = STATE_BUILD_DAY -> <<Prefixed("on_build_day", "buildday"), MenuBack>>
      [] state = STATE_BUILD_SLOT -> <<Prefixed("on_build_slot", "buildslot"), MenuBack>>
      [] state = STATE_BUILD_TEXT -> <<AnyText("on_build_text"), MenuBack>>
      [] state = STATE_EDIT_DAY -> <<Prefixed("on_edit_day", "editday"), MenuBack>>
      [] state = STATE_EDIT_SLOT -> <<Prefixed("on_edit_slot", "editslot"), MenuBack>>
      [] state = STATE_EDIT_TEXT -> <<AnyText("on_edit_text"), MenuBack>>

\* re.match(pattern, data) for the three pattern shapes: no pattern,
\* "^<prefix>:" and "^menu:back$"
Matches(h, upd) ==
    /\ h.kind = upd.kind
    /\ \/ h.pattern = <<>>
       \/ Len(h.pattern) = 1 /\ Len(upd.data) >= 2 /\ upd.data[1] = h.pattern[1]
       \/ Len(h.pattern) = 2 /\ upd.data = h.pattern

\* The first handler of the list that matches, or "none"
RECURSIVE FirstMatch(_, _)
FirstMatch(handlers, upd) ==
    IF handlers = <<>> THEN "none"
    ELSE IF Matches(Head(handlers), upd) THEN Head(handlers).handler
    ELSE FirstMatch(Tail(handlers), upd)

\* The handler that gets the update of a user whose conversation state is
\* state (<<>> before the first /start): the entry point first
\* (allow_reentry), then the state's handlers in order, then the fallbacks;
\* /help outside a conversation goes to the application's own help handler.
Route(state, upd) ==
    IF upd.kind = "start" THEN "cmd_start"
    ELSE IF state = <<>> THEN (IF upd.kind = "help" THEN "cmd_help" ELSE "none")
    ELSE IF FirstMatch(StateHandlers(state[1]), upd) # "none"
         THEN FirstMatch(StateHandlers(state[1]), upd)
    ELSE IF upd.kind = "help" THEN "cmd_help"
    ELSE "none"

(***************************************************************************)
(* Handlers.  Each yields [next: <<state returned>> or <<>> (None, or the   *)
(* handler raised: the conversation state stays), ud: context.user_data    *)
(* afterwards, file: DATA_FILE afterwards, raised, desync, failed: a        *)
(* save_all call failed, reply: what the handler rendered ("rendered" for  *)
(* the handler's one message, "confirmation" and "notice" for the two      *)
(* messages of the text handlers, "none" when it raised before rendering)].*)
(***************************************************************************)
Outcome(next, ud, f) ==
    [next |-> next, ud |-> ud, file |-> f, raised |-> FALSE, desync |-> FALSE,
     failed |-> FALSE, reply |-> "rendered"]
Raise(ud, f) ==
    [next |-> <<>>, ud |-> ud, file |-> f, raised |-> TRUE, desync |-> FALSE,
     failed |-> FALSE, reply |-> "none"]

EmptyUserData ==
    [build_day |-> <<>>, build_slot |-> <<>>, edit_day |-> <<>>, edit_slot |-> <<>>]

\* Mutant: /start stores a fresh default schedule for the user.
cmd_start_reset(f, ud, user_id) ==
    Outcome(<<STATE_MENU>>, ud, set_user_schedule(f, user_id, default_schedule))

cmd_start(f, ud, user_id) ==
    Outcome(<<STATE_MENU>>, ud, get_user_schedule(f, user_id).file)

\* Mutant: the help handler ends the flow the way cmd_start does.
cmd_help_to_menu(f, ud, user_id) == Outcome(<<STATE_MENU>>, ud, f)

\* cmd_help returns None: the conversation state stays
cmd_help(f, ud, user_id) == Outcome(<<>>, ud, f)

on_menu_click(f, ud, user_id, data) ==
    CASE data = <<"menu", "back">> -> Outcome(<<STATE_MENU>>, ud, f)
      [] data = <<"menu", "view">> -> Outcome(<<STATE_VIEW_DAY>>, ud, f)
      [] data = <<"menu", "build">> -> Outcome(<<STATE_BUILD_DAY>>, ud, f)
      [] data = <<"menu", "edit">> -> Outcome(<<STATE_EDIT_DAY>>, ud, f)
      [] OTHER -> Outcome(<<STATE_MENU>>, ud, f)

\* Mutant: after the day is shown the session stays in the day chooser.
on_view_day_loop(f, ud, user_id, data) ==
    LET day == DayOf(data)
        f2 == get_user_schedule(f, user_id).file
    IN  IF day \notin WeekdaySet THEN Raise(ud, f2)
        ELSE Outcome(<<STATE_VIEW_DAY>>, ud, f2)

\* format_day raises KeyError at WEEKDAY_RU[day] for a day that is no weekday
on_view_day(f, ud, user_id, data) ==
    LET day == DayOf(data)
        f2 == get_user_schedule(f, user_id).file
    IN  IF day \notin WeekdaySet THEN Raise(ud, f2)
        ELSE Outcome(<<STATE_MENU>>, ud, f2)

on_build_day(f, ud, user_id, data) ==
    LET day == DayOf(data)
        ud2 == [ud EXCEPT !.build_day = <<day>>]
        f2 == get_user_schedule(f, user_id).file
    IN  IF day \notin WeekdaySet THEN Raise(ud2, f2)
        ELSE Outcome(<<STATE_BUILD_SLOT>>, ud2, f2)

\* Mutant: the slot is recorded by its 1-based number on the button.
on_build_slot_one_based(f, ud, user_id, data) ==
    IF Len(data) >= 3 /\ data[2] = "back" THEN Outcome(<<STATE_BUILD_DAY>>, ud, f)
    ELSE IF Len(data) # 3 THEN Raise(ud, f)
    ELSE IF int(data[3]) = <<>> THEN Raise(ud, f)
    ELSE LET ud2 == [ud EXCEPT !.build_day = <<data[2]>>,
                               !.build_slot = <<int(data[3])[1] + 1>>]
         IN  IF data[2] \notin WeekdaySet THEN Raise(ud2, f)
             ELSE Outcome(<<STATE_BUILD_TEXT>>, ud2, f)

on_build_slot(f, ud, user_id, data) ==
    IF Len(data) >= 3 /\ data[2] = "back" THEN Outcome(<<STATE_BUILD_DAY>>, ud, f)
    ELSE IF Len(data) # 3 THEN Raise(ud, f)           \* unpacking: ValueError
    ELSE IF int(data[3]) = <<>> THEN Raise(ud, f)     \* int(): ValueError
    ELSE LET ud2 == [ud EXCEPT !.build_day = <<data[2]>>,
                               !.build_slot = int(data[3])]
         IN  IF data[2] \notin WeekdaySet THEN Raise(ud2, f)   \* WEEKDAY_RU[day]
             ELSE Outcome(<<STATE_BUILD_TEXT>>, ud2, f)

\* on_build_text and on_edit_text, given the pending selection they read
on_text_entry(f, ud, user_id, day, slot, message_text) ==
    LET r == on_text(f, user_id, day, slot, message_text)
    IN  IF r.desync
        THEN [next |-> <<STATE_MENU>>, ud |-> ud, file |-> f,
              raised |-> FALSE, desync |-> TRUE, failed |-> FALSE,
              reply |-> "notice"]
        ELSE IF ~r.ok THEN Raise(ud, r.file)
        ELSE [Outcome(<<STATE_MENU>>, ud, r.file) EXCEPT !.reply = "confirmation"]

on_build_text(f, ud, user_id, message_text) ==
    on_text_entry(f, ud, user_id, ud.build_day, ud.build_slot, message_text)

on_edit_day(f, ud, user_id, data) ==
    LET day == DayOf(data)
        ud2 == [ud EXCEPT !.edit_day = <<day>>]
        f2 == get_user_schedule(f, user_id).file
    IN  IF day \notin WeekdaySet THEN Raise(ud2, f2)
        ELSE Outcome(<<STATE_EDIT_SLOT>>, ud2, f2)

\* Mutant: the day is taken from what on_edit_day recorded, not from the
\* callback data.
on_edit_slot_recorded_day(f, ud, user_id, data) ==
    IF Len(data) >= 3 /\ data[2] = "back" THEN Outcome(<<STATE_EDIT_DAY>>, ud, f)
    ELSE IF Len(data) # 3 THEN Raise(ud, f)
    ELSE IF int(data[3]) = <<>> THEN Raise(ud, f)
    ELSE LET ud2 == [ud EXCEPT !.edit_slot = int(data[3])]
             got == get_user_schedule(f, user_id)
         IN  IF data[2] \notin WeekdaySet THEN Raise(ud2, got.file)
             ELSE IF IndexError(got.ret.days[data[2]].items, int(data[3])[1])
             THEN Raise(ud2, got.file)
             ELSE Outcome(<<STATE_EDIT_TEXT>>, ud2, got.file)

\* current = schedule[day][slot_index] raises KeyError or IndexError
on_edit_slot(f, ud, user_id, data) ==
    IF Len(data) >= 3 /\ data[2] = "back" THEN Outcome(<<STATE_EDIT_DAY>>, ud, f)
    ELSE IF Len(data) # 3 THEN Raise(ud, f)
    ELSE IF int(data[3]) = <<>> THEN Raise(ud, f)
    ELSE LET ud2 == [ud EXCEPT !.edit_day = <<data[2]>>,
                               !.edit_slot = int(data[3])]
             got == get_user_schedule(f, user_id)
         IN  IF data[2] \notin WeekdaySet THEN Raise(ud2, got.file)
             ELSE IF IndexError(got.ret.days[data[2]].items, int(data[3])[1])
             THEN Raise(ud2, got.file)
             ELSE Outcome(<<STATE_EDIT_TEXT>>, ud2, got.file)

on_edit_text(f, ud, user_id, message_text) ==
    on_text_entry(f, ud, user_id, ud.edit_day, ud.edit_slot, message_text)

(***************************************************************************)
(* Following the build flow: stage 1 after "menu:build" taken in Menu,     *)
(* 2 after a weekday D is then picked, 3 after slot i of D is then picked, *)
(* 4 after a non-blank text T is then sent; 0 after anything else.         *)
(***************************************************************************)
NoFlow == [stage |-> 0, day |-> "", slot |-> 0, text |-> <<>>]

NonBlank(t) == \E k \in 1..Len(t) : t[k] \notin Whitespace

FlowStep(fl, state, upd) ==
    IF upd.kind = "callback" /\ upd.data = <<"menu", "build">> /\ state = <<STATE_MENU>>
    THEN [NoFlow EXCEPT !.stage = 1]
    ELSE IF /\ fl.stage = 1 /\ upd.kind = "callback" /\ Len(upd.data) = 2
            /\ upd.data[1] = "buildday" /\ upd.data[2] \in WeekdaySet
    THEN [fl EXCEPT !.stage = 2, !.day = upd.data[2]]
    ELSE IF /\ fl.stage = 2 /\ upd.kind = "callback" /\ Len(upd.data) = 3
            /\ upd.data[1] = "buildslot" /\ upd.data[2] = fl.day
            /\ upd.data[3] \in {"0", "1", "2", "3"}
    THEN [fl EXCEPT !.stage = 3,
                    !.slot = CHOOSE i \in SlotRange : <<i>> = int(upd.data[3])]
    ELSE IF fl.stage = 3 /\ upd.kind = "text" /\ NonBlank(upd.text)
    THEN [fl EXCEPT !.stage = 4, !.text = upd.text]
    ELSE NoFlow

(***************************************************************************)
(* Spec: the bot.  Updates are processed one at a time (the Application    *)
(* runs handlers sequentially and the store functions do not await).       *)
(***************************************************************************)
NoEvent == [u |-> 0, kind |-> "none", data |-> <<>>, text |-> <<>>,
            handler |-> "none", raised |-> FALSE, desync |-> FALSE,
            failed |-> FALSE, reply |-> "none", from |-> <<>>]

\* The file when the bot starts: absent, or holding a malformed entry for
\* user 1, a well-formed one for user 2 and an entry under a foreign key.
BotInitFiles ==
    {AbsentFile,
     save_all([k \in Keys |-> IF k = Key(2) THEN Full(<<"a">>) ELSE Malformed])}

Init ==
    /\ file \in BotInitFiles
    /\ before = file
    /\ sess = [u \in Users |-> [state |-> <<>>, ud |-> EmptyUserData]]
    /\ ev = NoEvent
    /\ nev = 0
    /\ flow = [u \in Users |-> NoFlow]
    /\ StoreIdle /\ ConcIdle /\ NormIdle

\* User u's update upd is routed to handler h, whose outcome is r.
Handle(u, upd, h, r) ==
    /\ nev < MaxEvents
    /\ Route(sess[u].state, upd) = h
    /\ sess' = [sess EXCEPT ![u] = [state |-> IF r.next = <<>> THEN @.state
                                               ELSE r.next,
                                    ud |-> r.ud]]
    /\ file' = r.file
    /\ before' = file
    /\ ev' = [u |-> u, kind |-> upd.kind, data |-> upd.data, text |-> upd.text,
              handler |-> h, raised |-> r.raised, desync |-> r.desync,
              failed |-> r.failed, reply |-> r.reply, from |-> sess[u].state]
    /\ nev' = nev + 1
    /\ flow' = [flow EXCEPT ![u] = FlowStep(@, sess[u].state, upd)]
    /\ UNCHANGED <<storeVars, concVars, normVars>>

CmdStart(u) ==
    Handle(u, Command("start"), "cmd_start", cmd_start(file, sess[u].ud, u))

CmdHelp(u) ==
    Handle(u, Command("help"), "cmd_help", cmd_help(file, sess[u].ud, u))

OnMenuClick(u, data) ==
    Handle(u, Callback(data), "on_menu_click",
           on_menu_click(file, sess[u].ud, u, data))

OnViewDay(u, data) ==
    Handle(u, Callback(data), "on_view_day", on_view_day(file, sess[u].ud, u, data))

OnBuildDay(u, data) ==
    Handle(u, Callback(data), "on_build_day",
           on_build_day(file, sess[u].ud, u, data))

OnBuildSlot(u, data) ==
    Handle(u, Callback(data), "on_build_slot",
           on_build_slot(file, sess[u].ud, u, data))

OnBuildText(u, text) ==
    Handle(u, TextMessage(text), "on_build_text",
           on_build_text(file, sess[u].ud, u, text))

OnEditDay(u, data) ==
    Handle(u, Callback(data), "on_edit_day", on_edit_day(file, sess[u].ud, u, data))

OnEditSlot(u, data) ==
    Handle(u, Callback(data), "on_edit_slot",
           on_edit_slot(file, sess[u].ud, u, data))

OnEditText(u, text) ==
    Handle(u, TextMessage(text), "on_edit_text",
           on_edit_text(file, sess[u].ud, u, text))

\* No handler takes the update: nothing changes.
Unhandled(u, upd) ==
    Handle(u, upd, "none",
           [Outcome(<<>>, sess[u].ud, file) EXCEPT !.reply = "none"])

Next ==
    \/ \E u \in Users : CmdStart(u)
    \/ \E u \in Users : CmdHelp(u)
    \/ \E u \in Users, d \in CallbackData : OnMenuClick(u, d)
    \/ \E u \in Users, d \in CallbackData : OnViewDay(u, d)
    \/ \E u \in Users, d \in CallbackData : OnBuildDay(u, d)
    \/ \E u \in Users, d \in CallbackData : OnBuildSlot(u, d)
    \/ \E u \in Users, t \in Texts : OnBuildText(u, t)
    \/ \E u \in Users, d \in CallbackData : OnEditDay(u, d)
    \/ \E u \in Users, d \in CallbackData : OnEditSlot(u, d)
    \/ \E u \in Users, t \in Texts : OnEditText(u, t)
    \/ \E u \in Users, upd \in Samples : Unhandled(u, upd)

Spec == Init /\ [][Next]_vars

(***************************************************************************)
(* Claims checked under SpecStore and SpecNorm                             *)
(***************************************************************************)
StoreOps == {"get", "set", "setslot"}

Entry(f, u) == load_all(f)[Key(u)]

\* Element i (0-based) of day in entry e.
SlotOf(e, day, i) == e.days[day].items[i + 1]

\* Every slot of a well-formed schedule is the empty-marker.
AllMarks(s) ==
    /\ WellFormed(s)
    /\ \A d \in WeekdaySet : \A j \in 1..PAIR_COUNT : s.days[d].items[j] = MarkElem

\* Entries e1 and e2 agree everywhere except, possibly, at slot i of day.
SameExceptSlot(e1, e2, day, i) ==
    /\ e1.kind = e2.kind
    /\ \A d \in DayKeys :
          IF d # day
          THEN e1.days[d] = e2.days[d]
          ELSE /\ e1.days[d].kind = e2.days[d].kind
               /\ Len(e1.days[d].items) = Len(e2.days[d].items)
               /\ \A j \in 1..Len(e1.days[d].items) :
                     j # i + 1 => e1.days[d].items[j] = e2.days[d].items[j]

\* The last call was set_user_day_slot and it returned.
SlotWritten == calls # <<>> /\ LastCall.op = "setslot" /\ ret.ok

\* C2: after any sequence of getUserSchedule, setUserSchedule and setSlot
\* calls for a user, whatever was stored for that user at the start, the
\* user's persisted entry has the five weekdays with exactly four slots
\* each, and so has every schedule returned.
C2_FiveDaysFourSlots ==
    /\ \A n \in 1..Len(calls) :
          calls[n].op \in StoreOps => WellFormed(Entry(file, calls[n].u))
    /\ (calls # <<>> /\ LastCall.op \in {"get", "setslot"} /\ ret.ok)
          => WellFormed(ret.val)

C2_Witness ==
    /\ Len(calls) = 1
    /\ LastCall.op = "setslot" /\ LastCall.u = 1 /\ ret.ok
    /\ Entry(before, 1) = Malformed
    /\ ~WellFormed(Entry(before, 1))
    /\ WellFormed(Entry(file, 1))
    /\ ret.val = Entry(file, 1)

\* C3 as stated: setSlot(u, day, i, text) changes only slot i of day for u;
\* every other slot and day of u and every other user's persisted entry are
\* identical to their state before the call.
C3_Original ==
    SlotWritten =>
        /\ \A v \in Users \ {LastCall.u} : Entry(file, v) = Entry(before, v)
        /\ load_all(file)["01"] = load_all(before)["01"]
        /\ SameExceptSlot(Entry(file, LastCall.u), Entry(before, LastCall.u),
                          LastCall.day, LastCall.slot)

\* C3 amended: setSlot(u, day, i, text) leaves every other user's persisted
\* entry identical, and u's entry afterwards differs from the normalized
\* form of u's entry before the call (the default schedule when u had none)
\* at most at slot i of day.
C3_SlotIsolation ==
    SlotWritten =>
        /\ \A v \in Users \ {LastCall.u} : Entry(file, v) = Entry(before, v)
        /\ load_all(file)["01"] = load_all(before)["01"]
        /\ SameExceptSlot(Entry(file, LastCall.u),
                          Normalized(Entry(before, LastCall.u)),
                          LastCall.day, LastCall.slot)

C3_Witness ==
    /\ SlotWritten
    /\ LastCall.u = 1 /\ LastCall.day = "friday" /\ LastCall.slot = 3
    /\ Entry(before, 1) = Malformed
    /\ Entry(before, 2) = Full(<<"a">>)
    /\ load_all(before)["01"] = Malformed
    /\ SlotOf(Entry(file, 1), "friday", 3) = Str(<<" ", "a", " ">>)
    /\ SlotOf(Entry(file, 1), "monday", 0) = Str(<<"a">>)

\* r is t without its leading and trailing whitespace.
IsTrimOf(r, t) ==
    \E a \in 0..Len(t), b \in 0..Len(t) :
        /\ a + b <= Len(t)
        /\ r = SubSeq(t, a + 1, Len(t) - b)
        /\ \A k \in 1..a : t[k] \in Whitespace
        /\ \A k \in (Len(t) - b + 1)..Len(t) : t[k] \in Whitespace
        /\ r # <<>> => (r[1] \notin Whitespace /\ r[Len(r)] \notin Whitespace)

\* Element e is the trimmed text t, or the empty-marker when t is empty or
\* only whitespace.
IsTrimmedOrMark(e, t) ==
    /\ e.kind = "str"
    /\ IF IsTrimOf(<<>>, t) THEN e.s = EMPTY_MARK ELSE IsTrimOf(e.s, t)

C7_RoundTrip ==
    (/\ Len(calls) >= 2
     /\ PrevCall.op = "set" /\ LastCall.op = "get"
     /\ PrevCall.u = LastCall.u)
        => ret = Returned(normalize_schedule(PrevCall.schedule))

C7_Witness ==
    /\ Len(calls) = 2
    /\ PrevCall.op = "set" /\ LastCall.op = "get"
    /\ PrevCall.u = 1 /\ LastCall.u = 1
    /\ PrevCall.schedule = Malformed
    /\ ret.val # Malformed
    /\ SlotOf(ret.val, "monday", 0) = Str(<<"a">>)
    /\ SlotOf(ret.val, "monday", 1) = MarkElem
    /\ SlotOf(ret.val, "friday", 1) = Null

\* C9: getUserSchedule for a user id that is not in the table (also when the
\* file is absent) returns a schedule whose every slot is the empty-marker,
\* and a loadAll made right afterwards has the user's key with that schedule.
C9_DefaultForUnseen ==
    (calls # <<>> /\ LastCall.op = "get"
        /\ Entry(before, LastCall.u).kind = "missing")
        => /\ ret.ok
           /\ AllMarks(ret.val)
           /\ Entry(file, LastCall.u) = ret.val

C9_Witness ==
    /\ Len(calls) = 1 /\ LastCall.op = "get" /\ LastCall.u = 2
    /\ before = AbsentFile
    /\ file.kind = "dict"
    /\ AllMarks(Entry(file, 2))
    /\ Entry(file, 1).kind = "missing"

\* C8: _normalize_schedule is idempotent, and its result has exactly the five
\* weekdays with exactly four slots each, for a non-mapping input, missing
\* days, day values that are no lists, and short and long slot lists.
C8_NormalizeIdempotent ==
    /\ out1 # IdleEntry => WellFormed(out1)
    /\ out2 # IdleEntry => out2 = out1

C8_Witness ==
    /\ out2 # IdleEntry
    /\ raw.kind = "dict"
    /\ raw.days["monday"].kind = "list" /\ Len(raw.days["monday"].items) = 5
    /\ raw.days["friday"].kind = "missing"
    /\ raw.days["sunday"].kind = "list"
    /\ out1 # raw

(***************************************************************************)
(* SpecConc: two set_user_day_slot calls, for users 1 and 2, whose          *)
(* load_all and save_all steps interleave.  The store functions take no    *)
(* lock: a call is load_all, save_all (get_user_schedule), the assignment  *)
(* to the returned schedule, then load_all, save_all (set_user_schedule).  *)
(***************************************************************************)
\* (day, slot_index) arguments of the two calls
ConcArgs == {<<"monday", 0>>, <<"friday", 3>>}

ConcValue(u) == IF u = 1 THEN <<"a">> ELSE <<" ", "a", " ">>

InitConc ==
    /\ file \in InitFiles
    /\ before = file
    /\ pc = [u \in Users |-> "get_load"]
    /\ \E a1 \in ConcArgs, a2 \in ConcArgs :
          loc = [u \in Users |->
                   [all_data |-> NoUsers, schedule |-> IdleEntry,
                    day |-> IF u = 1 THEN a1[1] ELSE a2[1],
                    slot |-> IF u = 1 THEN a1[2] ELSE a2[2],
                    value |-> ConcValue(u)]]
    /\ StoreIdle /\ BotIdle /\ NormIdle

\* get_user_schedule: all_data = load_all()
GetLoad(u) ==
    /\ pc[u] = "get_load"
    /\ loc' = [loc EXCEPT ![u].all_data = load_all(file)]
    /\ pc' = [pc EXCEPT ![u] = "get_save"]
    /\ UNCHANGED <<file, before, storeVars, botVars, normVars>>

\* get_user_schedule: all_data[key] = ...; save_all(all_data); return, and
\* set_user_day_slot: schedule[day][slot_index] = value if value else "—"
GetSave(u) ==
    /\ pc[u] = "get_save"
    /\ LET entry == Normalized(loc[u].all_data[Key(u)])
           all_data == [loc[u].all_data EXCEPT ![Key(u)] = entry]
       IN  /\ file' = save_all(all_data)
           /\ loc' = [loc EXCEPT
                        ![u].all_data = all_data,
                        ![u].schedule = AssignSlot(entry, loc[u].day,
                                                   loc[u].slot, loc[u].value)]
    /\ before' = file
    /\ pc' = [pc EXCEPT ![u] = "set_load"]
    /\ UNCHANGED <<storeVars, botVars, normVars>>

\* set_user_schedule: all_data = load_all()
SetLoad(u) ==
    /\ pc[u] = "set_load"
    /\ loc' = [loc EXCEPT ![u].all_data = load_all(file)]
    /\ pc' = [pc EXCEPT ![u] = "set_save"]
    /\ UNCHANGED <<file, before, storeVars, botVars, normVars>>

\* set_user_schedule: all_data[key] = _normalize_schedule(schedule);
\* save_all(all_data)
SetSave(u) ==
    /\ pc[u] = "set_save"
    /\ LET all_data == [loc[u].all_data EXCEPT
                          ![Key(u)] = normalize_schedule(loc[u].schedule)]
       IN  /\ file' = save_all(all_data)
           /\ loc' = [loc EXCEPT ![u].all_data = all_data]
    /\ before' = file
    /\ pc' = [pc EXCEPT ![u] = "done"]
    /\ UNCHANGED <<storeVars, botVars, normVars>>

NextConc ==
    \/ \E u \in Users : GetLoad(u)
    \/ \E u \in Users : GetSave(u)
    \/ \E u \in Users : SetLoad(u)
    \/ \E u \in Users : SetSave(u)

SpecConc == InitConc /\ [][NextConc]_vars

\* C1: when two setSlot calls for two different users have both completed,
\* under any interleaving of their load and save steps, both written slot
\* values are in the persisted table.
C1_NoLostUpdate ==
    (\A u \in Users : pc[u] = "done") =>
        \A u \in Users :
            /\ Entry(file, u).kind = "dict"
            /\ SlotOf(Entry(file, u), loc[u].day, loc[u].slot)
                  = Str(loc[u].value)

(***************************************************************************)
(* Claims checked under Spec                                               *)
(***************************************************************************)
InState(u, state) == sess[u].state = <<state>>

\* C4 as stated: from Menu, "build", day D, slot i, non-blank text T takes
\* the session through BuildingDaySelect, BuildingSlotSelect and
\* BuildingTextEntry back to Menu, and then getUserSchedule(u)[D][i] = T.
C4_Original ==
    \A u \in Users :
        /\ flow[u].stage = 1 => InState(u, STATE_BUILD_DAY)
        /\ flow[u].stage = 2 => InState(u, STATE_BUILD_SLOT)
        /\ flow[u].stage = 3 => InState(u, STATE_BUILD_TEXT)
        /\ flow[u].stage = 4 =>
              /\ InState(u, STATE_MENU)
              /\ SlotOf(get_user_schedule(file, u).ret, flow[u].day, flow[u].slot)
                    = Str(flow[u].text)

\* C4 amended: the same path through the states, and afterwards
\* getUserSchedule(u)[D][i] is T without its leading and trailing whitespace.
C4_BuildFlow ==
    \A u \in Users :
        /\ flow[u].stage = 1 => InState(u, STATE_BUILD_DAY)
        /\ flow[u].stage = 2 => InState(u, STATE_BUILD_SLOT)
        /\ flow[u].stage = 3 => InState(u, STATE_BUILD_TEXT)
        /\ flow[u].stage = 4 =>
              /\ InState(u, STATE_MENU)
              /\ LET e == SlotOf(get_user_schedule(file, u).ret,
                                 flow[u].day, flow[u].slot)
                 IN  e.kind = "str" /\ IsTrimOf(e.s, flow[u].text)

C4_Witness ==
    /\ flow[1].stage = 4
    /\ flow[1].day = "friday" /\ flow[1].slot = 3
    /\ flow[1].text = <<" ", "a", " ">>
    /\ ev.u = 1 /\ ev.handler = "on_build_text" /\ ev.from = <<STATE_BUILD_TEXT>>
    /\ InState(1, STATE_MENU)
    /\ SlotOf(Entry(file, 1), "friday", 3) = Str(<<"a">>)
    /\ SlotOf(Entry(before, 1), "friday", 3) # Str(<<"a">>)

\* The pending selection a text-entry state reads: build_day / build_slot in
\* BuildingTextEntry, edit_day / edit_slot in EditingTextEntry.
PendingDay(u, state) ==
    IF state = <<STATE_BUILD_TEXT>> THEN sess[u].ud.build_day ELSE sess[u].ud.edit_day
PendingSlot(u, state) ==
    IF state = <<STATE_BUILD_TEXT>> THEN sess[u].ud.build_slot ELSE sess[u].ud.edit_slot

ValidPending(day, slot) ==
    /\ day # <<>> /\ slot # <<>>
    /\ day[1] \in {"monday", "tuesday", "wednesday", "thursday", "friday"}
    /\ slot[1] \in 0..3

\* The last update was a text message taken in a text-entry state while the
\* session held no valid pending selection.
TextWithoutPending ==
    /\ ev.kind = "text"
    /\ ev.from \in {<<STATE_BUILD_TEXT>>, <<STATE_EDIT_TEXT>>}
    /\ ~ValidPending(PendingDay(ev.u, ev.from), PendingSlot(ev.u, ev.from))

\* C5: a free-text event in BuildingTextEntry or EditingTextEntry while the
\* session holds no pending (day, slot), or a day that is no weekday, or a
\* slot index outside 0..3, leaves the persisted table unchanged and moves
\* the session to Menu.  The second conjunct applies the two handlers to a
\* session without any recorded selection.
C5_DesyncGuard ==
    /\ TextWithoutPending =>
          /\ file = before
          /\ InState(ev.u, STATE_MENU)
          /\ ~ev.raised
    /\ \A u \in Users, t \in Texts :
          /\ on_build_text(file, EmptyUserData, u, t).file = file
          /\ on_build_text(file, EmptyUserData, u, t).next = <<STATE_MENU>>
          /\ on_edit_text(file, EmptyUserData, u, t).file = file
          /\ on_edit_text(file, EmptyUserData, u, t).next = <<STATE_MENU>>

C5_Witness ==
    /\ TextWithoutPending
    /\ ev.u = 1 /\ ev.from = <<STATE_EDIT_TEXT>> /\ ev.handler = "on_edit_text"
    /\ sess[1].ud.edit_day = <<"monday">> /\ sess[1].ud.edit_slot = <<-1>>
    /\ ev.text = <<"a">>
    /\ InState(1, STATE_MENU)
    /\ file = before

BackUpdate == Callback(<<"menu", "back">>)

\* C10: in each of the eight conversation states "menu:back" is handled (by
\* on_menu_click) and moves the session to Menu.
C10_BackAlwaysAccepted ==
    /\ \A state \in ConvStates : Route(<<state>>, BackUpdate) = "on_menu_click"
    /\ (ev.kind = "callback" /\ ev.data = <<"menu", "back">> /\ ev.from # <<>>) =>
          /\ ev.handler = "on_menu_click"
          /\ ~ev.raised
          /\ InState(ev.u, STATE_MENU)

C10_Witness ==
    /\ ev.kind = "callback" /\ ev.data = <<"menu", "back">>
    /\ ev.from = <<STATE_EDIT_TEXT>>
    /\ ev.handler = "on_menu_click"
    /\ InState(ev.u, STATE_MENU)
    /\ sess[ev.u].ud.edit_slot = <<3>>

\* The last inbound update
LastUpdate == [kind |-> ev.kind, data |-> ev.data, text |-> ev.text]

\* The update is a callback query or a text message that none of the state's
\* handlers names: no handler with a pattern matches it, the state has no
\* text handler for a text message, and it is none of the four action codes
\* on_menu_click tells apart.
Unrecognized(state, upd) ==
    /\ upd.kind \in {"callback", "text"}
    /\ \A k \in 1..Len(StateHandlers(state)) :
          LET h == StateHandlers(state)[k]
          IN  ~(Matches(h, upd) /\ (h.kind = "text" \/ h.pattern # <<>>))
    /\ ~(upd.kind = "callback"
           /\ upd.data \in {<<"menu", "back">>, <<"menu", "view">>,
                            <<"menu", "build">>, <<"menu", "edit">>})

\* C11: from any conversation state, an update whose shape matches none of
\* that state's explicit patterns (a "viewday:" selection arriving in
\* BuildingDaySelect, say) is taken by the menu router, which renders the menu
\* and moves the session to Menu.
C11_FallbackToMenu ==
    (ev.from # <<>> /\ Unrecognized(ev.from[1], LastUpdate)) =>
        /\ ev.handler = "on_menu_click"
        /\ InState(ev.u, STATE_MENU)

\* C12: /help is accepted in every conversation state (and before the first
\* /start) and leaves the conversation state, context.user_data and the
\* persisted table as they were, for every user.
C12_HelpChangesNothing ==
    [][/\ \A state \in ConvStates : Route(<<state>>, Command("help")) = "cmd_help"
       /\ Route(<<>>, Command("help")) = "cmd_help"
       /\ (nev' = nev + 1 /\ ev'.kind = "help") =>
             /\ ev'.handler = "cmd_help"
             /\ ~ev'.raised
             /\ sess' = sess
             /\ file' = file]_vars

C12_Witness ==
    /\ ev.kind = "help" /\ ev.handler = "cmd_help" /\ ev.u = 1
    /\ ev.from = <<STATE_BUILD_TEXT>>
    /\ InState(1, STATE_BUILD_TEXT)
    /\ sess[1].ud.build_day = <<"friday">> /\ sess[1].ud.build_slot = <<3>>
    /\ file = before /\ file.kind = "dict"

\* C13: /start is accepted in every conversation state (and before the first
\* /start); after it the session is in Menu and the user has an entry in the
\* persisted table: the all-empty-marker default when the user had none, and
\* the entry as it was when the user's stored schedule was well-formed.
C13_StartResets ==
    /\ \A state \in ConvStates : Route(<<state>>, Command("start")) = "cmd_start"
    /\ Route(<<>>, Command("start")) = "cmd_start"
    /\ ev.kind = "start" =>
          /\ ev.handler = "cmd_start"
          /\ ~ev.raised
          /\ InState(ev.u, STATE_MENU)
          /\ Entry(file, ev.u).kind = "dict"
          /\ Entry(before, ev.u).kind = "missing" => AllMarks(Entry(file, ev.u))
          /\ WellFormed(Entry(before, ev.u)) =>
                Entry(file, ev.u) = Entry(before, ev.u)

C13_Witness ==
    /\ ev.kind = "start" /\ ev.u = 1 /\ ev.handler = "cmd_start"
    /\ ev.from = <<STATE_MENU>>
    /\ InState(1, STATE_MENU)
    /\ Entry(file, 2).kind = "missing"
    /\ WellFormed(Entry(before, 1))
    /\ SlotOf(Entry(before, 1), "monday", 0) = Str(<<"a">>)
    /\ SlotOf(Entry(file, 1), "monday", 0) = Str(<<"a">>)
    /\ SlotOf(Entry(file, 1), "monday", 1) = MarkElem

(***************************************************************************)
(* SpecTorn: one save_all running while another thread or process calls    *)
(* load_all.  save_all is DATA_FILE.open("w"), which truncates the file,   *)
(* then json.dump, which writes the object piece by piece, then the close  *)
(* that ends the with block.  It does not write a temporary file and       *)
(* rename it.  A file holding a proper prefix of the text of a JSON object *)
(* (the empty file included) is not valid JSON.                            *)
(***************************************************************************)
\* The order in which json.dump writes the keys of the table
KeyOrder == <<Key(1), Key(2), "01">>

\* The file while json.dump has written the first n entries of data
PartialFile(data, n) ==
    [kind |-> "garbage",
     users |-> [k \in Keys |->
                  IF \E j \in 1..n : KeyOrder[j] = k THEN data[k]
                                                     ELSE MissingEntry]]

\* Tables handed to save_all: the stored table with one user's entry replaced
TornData(f) ==
    {[load_all(f) EXCEPT ![Key(u)] = e] :
        u \in Users, e \in {default_schedule, Full(<<" ">>)}}

NotRead == [done |-> FALSE, table |-> NoUsers]

InitTorn ==
    /\ file \in InitFiles
    /\ before = file
    /\ pc = [writer |-> "open", reader |-> "idle"]
    /\ \E data \in TornData(file) :
          loc = [data |-> data, written |-> 0, read |-> NotRead, readAt |-> "open"]
    /\ StoreIdle /\ BotIdle /\ NormIdle

\* with DATA_FILE.open("w", encoding="utf-8") as f: the file is truncated
SaveOpen ==
    /\ pc.writer = "open"
    /\ file' = PartialFile(loc.data, 0)
    /\ pc' = [pc EXCEPT !.writer = "dump"]
    /\ UNCHANGED <<before, loc, storeVars, botVars, normVars>>

\* Positions in KeyOrder, past the first n, of keys the table has
Unwritten(data, n) ==
    {j \in (n + 1)..Len(KeyOrder) : data[KeyOrder[j]].kind # "missing"}

\* json.dump(data, f, ...): the next entry of the table reaches the file
SaveDump ==
    /\ pc.writer = "dump"
    /\ Unwritten(loc.data, loc.written) # {}
    /\ LET j == CHOOSE j \in Unwritten(loc.data, loc.written) :
                   \A i \in Unwritten(loc.data, loc.written) : j <= i
       IN  /\ file' = PartialFile(loc.data, j)
           /\ loc' = [loc EXCEPT !.written = j]
    /\ UNCHANGED <<before, pc, storeVars, botVars, normVars>>

\* the end of json.dump and of the with block: the closing brace is written
\* and the file closed
SaveClose ==
    /\ pc.writer = "dump"
    /\ Unwritten(loc.data, loc.written) = {}
    /\ file' = save_all(loc.data)
    /\ pc' = [pc EXCEPT !.writer = "done"]
    /\ UNCHANGED <<before, loc, storeVars, botVars, normVars>>

\* load_all() in the reader, at any moment
ReaderLoadAll ==
    /\ loc' = [loc EXCEPT !.read = [done |-> TRUE, table |-> load_all(file)],
                          !.readAt = pc.writer]
    /\ pc' = [pc EXCEPT !.reader = "read"]
    /\ UNCHANGED <<file, before, storeVars, botVars, normVars>>

NextTorn == SaveOpen \/ SaveDump \/ SaveClose \/ ReaderLoadAll

SpecTorn == InitTorn /\ [][NextTorn]_vars

\* C14: a load_all running concurrently with a save_all returns either the
\* complete table from before the write or the complete table from after it.
C14_NoTornRead ==
    loc.read.done => loc.read.table \in {load_all(before), loc.data}

(***************************************************************************)
(* SpecLoad: load_all() called on a file in any condition                  *)
(***************************************************************************)
\* Stored tables: every key absent, no object, malformed or well-formed
LoadTables == [Keys -> {MissingEntry, OtherEntry, Malformed, Full(<<"a">>)}]

\* The file: absent, inaccessible, unreadable, valid JSON that is no object,
\* an object, and text that is not valid JSON (a write cut short).
LoadFiles ==
    {AbsentFile, InaccessibleFile, UnreadableFile, NonObjectFile, GarbageFile}
      \cup {save_all(t) : t \in LoadTables}
      \cup {PartialFile(t, n) : t \in LoadTables, n \in 0..Len(KeyOrder)}

InitLoad ==
    /\ file \in LoadFiles
    /\ before = file
    /\ pc = "call"
    /\ loc = [raised |-> FALSE, table |-> NoUsers]
    /\ StoreIdle /\ BotIdle /\ NormIdle

LoadAll(reraise) ==
    /\ pc = "call"
    /\ loc' = LoadOutcome(file, reraise)
    /\ pc' = IF LoadOutcome(file, reraise).raised THEN "raised" ELSE "returned"
    /\ UNCHANGED <<file, before, storeVars, botVars, normVars>>

NextLoad == \E reraise \in BOOLEAN : LoadAll(reraise)

SpecLoad == InitLoad /\ [][NextLoad]_vars

\* C15: load_all never raises: it returns the empty mapping when the file is
\* absent, cannot be read, is not valid JSON or holds JSON whose top level
\* is not an object, and the stored mapping otherwise.
C15_LoadNeverRaises ==
    /\ pc # "raised"
    /\ pc = "returned" =>
          loc.table = IF file.kind = "dict" THEN file.users ELSE NoUsers

(***************************************************************************)
(* Further claims checked under SpecStore                                  *)
(***************************************************************************)
\* C16: no slot of a schedule returned by get_user_schedule is null or
\* absent: the schedule has four slots for every weekday and each is a
\* string, whatever the stored day list held (a null element inside a
\* four-element list, say).
C16_NoNullSlot ==
    (calls # <<>> /\ LastCall.op = "get" /\ ret.ok) =>
        /\ WellFormed(ret.val)
        /\ \A d \in WeekdaySet : \A j \in 1..Len(ret.val.days[d].items) :
              ret.val.days[d].items[j].kind = "str"

(***************************************************************************)
(* SpecFail: the bot when a save_all call made by a text handler fails.    *)
(* save_all raises OSError either at DATA_FILE.open("w") (the file is left *)
(* as it was) or during json.dump (the file is left truncated); the error  *)
(* leaves get_user_schedule / set_user_schedule, set_user_day_slot and the *)
(* handler, and the Application passes it to error_handler.                *)
(***************************************************************************)
\* The files a failing save_all(data) may leave behind
save_all_failure(f, data) == {f, PartialFile(data, 0)}

\* Mutant: the handler catches the error and returns to the menu.
WriteFailure_swallowed(ud, f) ==
    [next |-> <<STATE_MENU>>, ud |-> ud, file |-> f, raised |-> FALSE,
     desync |-> FALSE, failed |-> TRUE, reply |-> "none"]

\* The outcome of a handler out of which the OSError of save_all propagates
WriteFailure(ud, f) ==
    [next |-> <<>>, ud |-> ud, file |-> f, raised |-> TRUE,
     desync |-> FALSE, failed |-> TRUE, reply |-> "none"]

\* The outcomes of on_build_text / on_edit_text when the save_all of
\* get_user_schedule fails, or that one succeeds and the save_all of
\* set_user_schedule fails.  Past the desync guard only: before it no write
\* is attempted.
on_text_entry_failing(f, ud, user_id, day, slot, message_text) ==
    IF Desync(day, slot) THEN {}
    ELSE LET text == strip(message_text)
             key == Key(user_id)
             first == [load_all(f) EXCEPT ![key] = Normalized(@)]
             got == get_user_schedule(f, user_id)
             changed == AssignSlot(got.ret, day[1], slot[1], OrMark(text))
             second == [load_all(got.file) EXCEPT
                          ![key] = normalize_schedule(changed)]
         IN  {WriteFailure(ud, g) : g \in save_all_failure(f, first)}
               \cup {WriteFailure(ud, g) : g \in save_all_failure(got.file, second)}

OnBuildTextFails(u, text) ==
    \E r \in on_text_entry_failing(file, sess[u].ud, u, sess[u].ud.build_day,
                                   sess[u].ud.build_slot, text) :
        Handle(u, TextMessage(text), "on_build_text", r)

OnEditTextFails(u, text) ==
    \E r \in on_text_entry_failing(file, sess[u].ud, u, sess[u].ud.edit_day,
                                   sess[u].ud.edit_slot, text) :
        Handle(u, TextMessage(text), "on_edit_text", r)

NextFail ==
    \/ Next
    \/ \E u \in Users, t \in Texts : OnBuildTextFails(u, t)
    \/ \E u \in Users, t \in Texts : OnEditTextFails(u, t)

SpecFail == Init /\ [][NextFail]_vars

\* C17: when a storage write fails while a text message is handled in
\* BuildingTextEntry or EditingTextEntry, the error leaves the handler, no
\* confirmation is rendered, the handler does not return Menu (the session
\* stays in the text-entry state), and no other user's session changes.
C17_WriteFailurePropagates ==
    [][(nev' = nev + 1 /\ ev'.failed) =>
          /\ ev'.raised
          /\ ev'.reply = "none"
          /\ ev'.from \in {<<STATE_BUILD_TEXT>>, <<STATE_EDIT_TEXT>>}
          /\ sess'[ev'.u].state = ev'.from
          /\ \A v \in Users \ {ev'.u} : sess'[v] = sess[v]]_vars

C17_Witness ==
    /\ ev.failed /\ ev.raised /\ ev.u = 1
    /\ ev.handler = "on_edit_text" /\ ev.from = <<STATE_EDIT_TEXT>>
    /\ InState(1, STATE_EDIT_TEXT)
    /\ InState(2, STATE_MENU)
    /\ before.kind = "dict" /\ file.kind = "garbage"

(***************************************************************************)
(* Further claims checked under Spec                                       *)
(***************************************************************************)
\* The last update was the pick of a weekday in ViewingDaySelect.
DayViewed ==
    /\ ev.kind = "callback" /\ ev.from = <<STATE_VIEW_DAY>>
    /\ Len(ev.data) = 2 /\ ev.data[1] = "viewday" /\ ev.data[2] \in WeekdaySet

\* C18: picking a day in ViewingDaySelect moves the session to Menu, and
\* when the viewing user's stored entry was well-formed the persisted table
\* has the same content afterwards as before, for every key.
C18_ViewIsReadOnly ==
    DayViewed =>
        /\ ev.handler = "on_view_day"
        /\ ~ev.raised
        /\ InState(ev.u, STATE_MENU)
        /\ WellFormed(Entry(before, ev.u)) => load_all(file) = load_all(before)

C18_Witness ==
    /\ DayViewed
    /\ ev.u = 2 /\ ev.data = <<"viewday", "friday">>
    /\ InState(2, STATE_MENU)
    /\ Entry(before, 2) = Full(<<"a">>)
    /\ Entry(file, 2) = Full(<<"a">>)
    /\ Entry(file, 1) = Malformed

TextStates == {<<STATE_BUILD_TEXT>>, <<STATE_EDIT_TEXT>>}

\* The schedule get_user_schedule would return for key k of file f
ScheduleOf(f, k) == Normalized(load_all(f)[k])

KeyboardDays == ArgDays \cap WeekdaySet

KeyboardData ==
    {<<"menu", "back">>, <<"menu", "view">>, <<"menu", "build">>,
     <<"menu", "edit">>}
      \cup {<<prefix, d>> : prefix \in {"viewday", "buildday", "editday"},
                            d \in KeyboardDays}
      \cup {<<prefix, d, ToString(i)>> : prefix \in {"buildslot", "editslot"},
                                         d \in KeyboardDays, i \in SlotRange}
      \cup {<<prefix, "back", d>> : prefix \in {"buildslot", "editslot"},
                                    d \in KeyboardDays}

NextKeyboard ==
    \/ \E u \in Users : CmdStart(u)
    \/ \E u \in Users : CmdHelp(u)
    \/ \E u \in Users, d \in KeyboardData : OnMenuClick(u, d)
    \/ \E u \in Users, d \in KeyboardData : OnViewDay(u, d)
    \/ \E u \in Users, d \in KeyboardData : OnBuildDay(u, d)
    \/ \E u \in Users, d \in KeyboardData : OnBuildSlot(u, d)
    \/ \E u \in Users, t \in Texts : OnBuildText(u, t)
    \/ \E u \in Users, d \in KeyboardData : OnEditDay(u, d)
    \/ \E u \in Users, d \in KeyboardData : OnEditSlot(u, d)
    \/ \E u \in Users, t \in Texts : OnEditText(u, t)
    \/ \E u \in Users, upd \in Samples : Unhandled(u, upd)

SpecKeyboard == Init /\ [][NextKeyboard]_vars

\* The selection a session in text-entry state `state' will write to
Pending(s, state) ==
    IF state = <<STATE_BUILD_TEXT>> THEN <<s.ud.build_day, s.ud.build_slot>>
                                    ELSE <<s.ud.edit_day, s.ud.edit_slot>>

\* C20: when every callback query carries data produced by the keyboards,
\* a session in BuildingTextEntry (EditingTextEntry) holds a build (edit)
\* selection with a weekday and a slot index in 0..3; the selection is the
\* day and slot of the buildslot (editslot) query that entered the state and
\* stays so while the session remains there; no update takes the desync
\* branch.
C20_PendingIsThePick ==
    [][nev' = nev + 1 =>
          /\ ~ev'.desync
          /\ \A u \in Users : \A st \in TextStates :
                sess'[u].state = st =>
                    /\ ValidPending(Pending(sess'[u], st)[1],
                                    Pending(sess'[u], st)[2])
                    /\ IF sess[u].state = st
                       THEN Pending(sess'[u], st) = Pending(sess[u], st)
                       ELSE /\ ev'.u = u
                            /\ ev'.handler = IF st = <<STATE_BUILD_TEXT>>
                                             THEN "on_build_slot"
                                             ELSE "on_edit_slot"
                            /\ Len(ev'.data) = 3
                            /\ Pending(sess'[u], st)
                                  = <<<<ev'.data[2]>>, int(ev'.data[3])>>]_vars

C20_Witness ==
    /\ ev.u = 1 /\ ev.handler = "on_edit_slot"
    /\ ev.data = <<"editslot", "friday", "3">>
    /\ ev.from = <<STATE_EDIT_SLOT>>
    /\ InState(1, STATE_EDIT_TEXT)
    /\ sess[1].ud.edit_day = <<"friday">> /\ sess[1].ud.edit_slot = <<3>>
    /\ sess[1].ud.build_day = <<>> /\ sess[1].ud.build_slot = <<>>
    /\ InState(2, STATE_MENU)

====
